---------------------------- MODULE Spec2Model ----------------------------
(***************************************************************************)
(* A model of src/src/world.rs: the tile grid, the rasterization of rooms  *)
(* and corridors, and World's generate() / to_tilegrid().                  *)
(*                                                                         *)
(* Conventions.  A Point is a pair <<x, y>>.  Vec indices are 0-based in   *)
(* the grid (grid[y][x], as in the code) and 1-based in the sequences      *)
(* rooms and corridors.  usize values are modelled as integers; the one    *)
(* subtraction that can go below zero (x - 1, y - 1 in the corridor        *)
(* rasterizers) yields an index outside the grid, and the write panics     *)
(* there in every build (overflow check or wrapped index out of bounds).   *)
(* Distances are f32 in the code; the model compares squared distances,    *)
(* which orders them the same way for the coordinates modelled here.       *)
(* The RoomEdge fields of a Room are read by no code and are left out.     *)
(***************************************************************************)
EXTENDS Integers, Sequences, FiniteSets

VARIABLES
    size,       \* World.size
    rooms,      \* World.rooms
    corridors,  \* World.corridors
    pc,         \* where the caller / generate() is
    calls,      \* number of generate() calls begun
    todo,       \* generate(): iterations left of `for _ in 0..room_number`
    cand,       \* random_room(): room_width, room_height
    idx,        \* generate(): position of `for room in &self.rooms`
    nearest,    \* generate(): nearest_room of the last iteration (index)
    grid,       \* the TileGrid at hand (NoGrid when there is none)
    pre,        \* the TileGrid before the last grid operation
    op          \* the last grid operation and its arguments

vars == <<size, rooms, corridors, pc, calls, todo, cand, idx, nearest, grid, pre, op>>

worldVars == <<size, rooms, corridors, pc, calls, todo, cand, idx, nearest>>

---------------------------------------------------------------------------
(* Bounds of the model *)

\* largest World.size explored with the full random generator
MaxSize == 9

\* most generate() calls on one World
MaxCalls == 2

\* side of the grid the single grid operations are applied to
GridN == 4

\* most cells already painted when a single grid operation is applied
MaxPainted == 1

\* the World.size, and the spacing of the generator's values, of the runs
\* in which two generate() calls complete
LatticeSize == 14

LatticeStride == 5

---------------------------------------------------------------------------
(* Program constants *)

RoomDimLo == 3
RoomDimHi == 6
RoomCountLo == 3
RoomCountHi == 5
Padding == 2

TileType == {"Empty", "Wall", "Corridor", "Floor"}

CorridorType == {"Horizontal", "Vertical"}

NoGrid == <<>>

NoOp == [kind |-> "none"]

NoCand == [width |-> 0, height |-> 0]

---------------------------------------------------------------------------
(* TileGrid *)

\* TileGrid::new: size rows of size Empty cells
TileGridNew(n) == [y \in 0..(n - 1) |-> [x \in 0..(n - 1) |-> "Empty"]]

\* whether grid[y][x] is an element of the Vec<Vec<TileType>>
InGrid(g, x, y) == y \in DOMAIN g /\ x \in DOMAIN g[y]

SetTile(g, x, y, tile) == [g EXCEPT ![y][x] = tile]

\* set_empty_tile without its test of the cell
SetEmptyTileAlways(g, x, y, tile) == SetTile(g, x, y, tile)

SetEmptyTile(g, x, y, tile) ==
    SetTile(g, x, y, IF g[y][x] = "Empty" THEN tile ELSE g[y][x])

\* one call of set_tile / set_empty_tile, as the rasterizers issue them
WSet(x, y, tile) == [fn |-> "set_tile", x |-> x, y |-> y, tile |-> tile]

WSetEmpty(x, y, tile) == [fn |-> "set_empty_tile", x |-> x, y |-> y, tile |-> tile]

Write(g, w) ==
    IF w.fn = "set_tile" THEN SetTile(g, w.x, w.y, w.tile)
    ELSE SetEmptyTile(g, w.x, w.y, w.tile)

\* The calls of a rasterizer in order; the first one that indexes outside
\* the grid panics and the later ones never run.
RECURSIVE ApplyWrites(_, _)
ApplyWrites(g, ws) ==
    IF Len(ws) = 0 THEN [grid |-> g, ok |-> TRUE]
    ELSE IF ~InGrid(g, Head(ws).x, Head(ws).y) THEN [grid |-> g, ok |-> FALSE]
    ELSE ApplyWrites(Write(g, Head(ws)), Tail(ws))

---------------------------------------------------------------------------
(* Room *)

RoomNew(start, width, height) ==
    [start |-> start, width |-> width, height |-> height,
     center |-> <<start[1] + (width \div 2), start[2] + (height \div 2)>>]

\* the top and the bottom wall with `for x in start.0..endx`
RoomWallRowsShort(r) ==
    LET endy == r.start[2] + r.height
    IN  [k \in 1..(2 * r.width) |->
            LET x == r.start[1] + ((k - 1) \div 2)
            IN  IF k % 2 = 1 THEN WSetEmpty(x, r.start[2], "Wall")
                ELSE WSetEmpty(x, endy, "Wall")]

\* for x in start.0..(endx + 1): the top and the bottom wall
RoomWallRows(r) ==
    LET endy == r.start[2] + r.height
    IN  [k \in 1..(2 * (r.width + 1)) |->
            LET x == r.start[1] + ((k - 1) \div 2)
            IN  IF k % 2 = 1 THEN WSetEmpty(x, r.start[2], "Wall")
                ELSE WSetEmpty(x, endy, "Wall")]

\* for y in start.1..endy: the left and the right wall
RoomWallCols(r) ==
    LET endx == r.start[1] + r.width
    IN  [k \in 1..(2 * r.height) |->
            LET y == r.start[2] + ((k - 1) \div 2)
            IN  IF k % 2 = 1 THEN WSetEmpty(r.start[1], y, "Wall")
                ELSE WSetEmpty(endx, y, "Wall")]

\* for x in (start.0 + 1)..endx, for y in (start.1 + 1)..endy: the floor
RoomFill(r) ==
    [k \in 1..((r.width - 1) * (r.height - 1)) |->
        WSet(r.start[1] + 1 + ((k - 1) \div (r.height - 1)),
             r.start[2] + 1 + ((k - 1) % (r.height - 1)),
             "Floor")]

RoomTile(r, g) == ApplyWrites(g, RoomWallRows(r) \o RoomWallCols(r) \o RoomFill(r))

---------------------------------------------------------------------------
(* Corridor *)

CorridorNew(start, length, direction) ==
    [start |-> start, length |-> length, direction |-> direction]

TileVertical(c, g) ==
    LET x == c.start[1]
    IN  ApplyWrites(g,
            [k \in 1..(3 * c.length) |->
                LET y == c.start[2] + ((k - 1) \div 3)
                IN  CASE k % 3 = 1 -> WSetEmpty(x - 1, y, "Wall")
                      [] k % 3 = 2 -> WSet(x, y, "Floor")
                      [] OTHER     -> WSetEmpty(x + 1, y, "Wall")])

TileHorizontal(c, g) ==
    LET y == c.start[2]
    IN  ApplyWrites(g,
            [k \in 1..(3 * c.length) |->
                LET x == c.start[1] + ((k - 1) \div 3)
                IN  CASE k % 3 = 1 -> WSetEmpty(x, y - 1, "Wall")
                      [] k % 3 = 2 -> WSet(x, y, "Floor")
                      [] OTHER     -> WSetEmpty(x, y - 1, "Wall")])

CorridorTile(c, g) ==
    IF c.direction = "Horizontal" THEN TileHorizontal(c, g) ELSE TileVertical(c, g)

---------------------------------------------------------------------------
(* World *)

HorDist(point1, point2) == point2[1] - point1[1]

VerDist(point1, point2) == point2[2] - point1[2]

\* distance(), squared: powf(2.0) of both components, summed (sqrt left out)
DistanceSq(point1, point2) ==
    HorDist(point1, point2) * HorDist(point1, point2)
    + VerDist(point1, point2) * VerDist(point1, point2)

\* `as usize` of an f32 with an integral value: saturates at 0
AsUsize(v) == IF v < 0 THEN 0 ELSE v

\* overlaps() with the padding added to the candidate's bounds only
OverlapsOneSided(rs, start, width, height, padding) ==
    \E k \in 1..Len(rs) :
        /\ rs[k].start[1] < start[1] + width + padding
        /\ rs[k].start[1] + rs[k].width > start[1]
        /\ rs[k].start[2] < start[2] + height + padding
        /\ rs[k].start[2] + rs[k].height > start[2]

Overlaps(rs, start, width, height, padding) ==
    \E k \in 1..Len(rs) :
        /\ rs[k].start[1] < start[1] + width + padding
        /\ rs[k].start[1] + rs[k].width + padding > start[1]
        /\ rs[k].start[2] < start[2] + height + padding
        /\ rs[k].start[2] + rs[k].height + padding > start[2]

\* room_distances() without its sort_by
RoomDistancesUnsorted(rs, point) ==
    [k \in 1..Len(rs) |-> [room_num |-> k, dist |-> DistanceSq(point, rs[k].center)]]

\* The (room_num, distance) pairs sorted by distance; sort_by is stable, so
\* rooms at equal distance keep their order in rooms.
RoomDistances(rs, point) ==
    LET d(k) == DistanceSq(point, rs[k].center)
        before(j, k) == d(j) < d(k) \/ (d(j) = d(k) /\ j < k)
        rank(k) == 1 + Cardinality({j \in 1..Len(rs) : before(j, k)})
    IN  [pos \in 1..Len(rs) |->
            LET k == CHOOSE k \in 1..Len(rs) : rank(k) = pos
            IN  [room_num |-> k, dist |-> d(k)]]

\* rng.gen_range(low, high): a value of low..high-1 (it panics when there is
\* none).  step = 1 yields them all; a larger step yields those that lie
\* step apart from low.
GenRange(low, high, step) == {v \in low..(high - 1) : (v - low) % step = 0}

\* the rooms loop of to_tilegrid(): room.tile(&mut grid).unwrap(); a panic
\* in one room's rasterization ends the loop
RECURSIVE TileRooms(_, _)
TileRooms(rs, res) ==
    IF Len(rs) = 0 \/ ~res.ok THEN res
    ELSE TileRooms(Tail(rs), RoomTile(Head(rs), res.grid))

\* the corridors loop of to_tilegrid(): its body is empty
TileCorridors(cs, res) == res

\* generate(): let room_number = rng.gen_range(3, 5)
GenerateBegin(step) ==
    /\ pc = "idle"
    /\ calls < MaxCalls
    /\ \E n \in GenRange(RoomCountLo, RoomCountHi, step) : todo' = n
    /\ pc' = "rooms"
    /\ calls' = calls + 1
    /\ idx' = 0
    /\ nearest' = 0
    /\ grid' = NoGrid
    /\ UNCHANGED <<size, rooms, corridors, cand, pre, op>>

\* random_room(): let room_width = ..., let room_height = ...
RandomRoomBegin(step) ==
    /\ pc = "rooms"
    /\ \E w \in GenRange(RoomDimLo, RoomDimHi, step), h \in GenRange(RoomDimLo, RoomDimHi, step) :
          /\ 0 < size - w
          /\ 0 < size - h
          /\ cand' = [width |-> w, height |-> h]
    /\ pc' = "sampling"
    /\ UNCHANGED <<size, rooms, corridors, calls, todo, idx, nearest, grid, pre, op>>

\* random_room(): gen_range(0, size - dim) with nothing to draw from
RandomRoomPanic ==
    /\ pc = "rooms"
    /\ \E w \in GenRange(RoomDimLo, RoomDimHi, 1), h \in GenRange(RoomDimLo, RoomDimHi, 1) :
          size - w <= 0 \/ size - h <= 0
    /\ pc' = "panic_gen_range"
    /\ UNCHANGED <<size, rooms, corridors, calls, todo, cand, idx, nearest, grid, pre, op>>

\* random_room(): a start point is drawn (before the loop or in its body),
\* overlaps() holds of it and the `while` goes round again
RandomRoomRetry(step) ==
    /\ pc = "sampling"
    /\ ~ \A sx \in GenRange(0, size - cand.width, step), sy \in GenRange(0, size - cand.height, step) :
            ~Overlaps(rooms, <<sx, sy>>, cand.width, cand.height, Padding)
    /\ UNCHANGED vars

\* random_room() drawing its start points from gen_range(0, size)
RandomRoomReturnAnyStart(step) ==
    /\ pc = "sampling"
    /\ \E sx \in GenRange(0, size, step), sy \in GenRange(0, size, step) :
          /\ ~Overlaps(rooms, <<sx, sy>>, cand.width, cand.height, Padding)
          /\ rooms' = Append(rooms, RoomNew(<<sx, sy>>, cand.width, cand.height))
    /\ todo' = todo - 1
    /\ pc' = IF todo = 1 THEN "corridors" ELSE "rooms"
    /\ cand' = NoCand
    /\ UNCHANGED <<size, corridors, calls, idx, nearest, grid, pre, op>>

\* random_room(): a start point is drawn, overlaps() does not hold of it,
\* the room is returned and generate() pushes it
RandomRoomReturn(step) ==
    /\ pc = "sampling"
    /\ \E sx \in GenRange(0, size - cand.width, step), sy \in GenRange(0, size - cand.height, step) :
          /\ ~Overlaps(rooms, <<sx, sy>>, cand.width, cand.height, Padding)
          /\ rooms' = Append(rooms, RoomNew(<<sx, sy>>, cand.width, cand.height))
    /\ todo' = todo - 1
    /\ pc' = IF todo = 1 THEN "corridors" ELSE "rooms"
    /\ cand' = NoCand
    /\ UNCHANGED <<size, corridors, calls, idx, nearest, grid, pre, op>>

\* generate(): one iteration of `for room in &self.rooms`
CorridorStep ==
    /\ pc = "corridors"
    /\ idx < Len(rooms)
    /\ LET room == rooms[idx + 1]
           distances == RoomDistances(rooms, room.center)
           nearest_room == distances[2].room_num
       IN  /\ nearest' = nearest_room
           /\ corridors' = Append(corridors,
                  CorridorNew(room.center,
                              AsUsize(HorDist(room.center, rooms[nearest_room].center)),
                              "Horizontal"))
    /\ idx' = idx + 1
    /\ pc' = IF idx + 1 = Len(rooms) THEN "idle" ELSE "corridors"
    /\ UNCHANGED <<size, rooms, calls, todo, cand, grid, pre, op>>

\* to_tilegrid(): a fresh grid, every room, then every corridor
ToTilegridResult ==
    TileCorridors(corridors, TileRooms(rooms, [grid |-> TileGridNew(size), ok |-> TRUE]))

ToTilegrid ==
    /\ pc = "idle"
    /\ \E res \in {ToTilegridResult} :
          /\ grid' = res.grid
          /\ pc' = IF res.ok THEN "idle" ELSE "panic_index"
    /\ UNCHANGED <<size, rooms, corridors, calls, todo, cand, idx, nearest, pre, op>>

\* World::new(size)
WorldNew(n) ==
    /\ size = n
    /\ rooms = <<>>
    /\ corridors = <<>>
    /\ pc = "idle"
    /\ calls = 0
    /\ todo = 0
    /\ cand = NoCand
    /\ idx = 0
    /\ nearest = 0
    /\ grid = NoGrid
    /\ pre = NoGrid
    /\ op = NoOp

Init == \E n \in (RoomDimHi - 1)..MaxSize : WorldNew(n)

Next ==
    \/ GenerateBegin(1)
    \/ RandomRoomBegin(1)
    \/ RandomRoomPanic
    \/ RandomRoomRetry(1)
    \/ RandomRoomReturn(1)
    \/ CorridorStep
    \/ ToTilegrid

Spec == Init /\ [][Next]_vars

\* The runs of a World of LatticeSize whose generator yields values
\* LatticeStride apart: 3 by 3 rooms on a lattice, so that generate() returns
\* more than once.
InitLattice == WorldNew(LatticeSize)

NextLattice ==
    \/ GenerateBegin(LatticeStride)
    \/ RandomRoomBegin(LatticeStride)
    \/ RandomRoomRetry(LatticeStride)
    \/ RandomRoomReturn(LatticeStride)
    \/ CorridorStep
    \/ ToTilegrid

SpecLattice == InitLattice /\ [][NextLattice]_vars

---------------------------------------------------------------------------
(* The grid operations one at a time: a TileGrid of side GridN that holds  *)
(* at most MaxPainted painted cells, and one set_tile, set_empty_tile,     *)
(* Room::tile or Corridor::tile on it.  Only calls that stay inside the    *)
(* grid (the callers' duty) are taken.                                     *)

Coords == 0..(GridN - 1)

\* the grids set_tile makes of a fresh one in at most k calls
RECURSIVE PaintedGrids(_)
PaintedGrids(k) ==
    IF k = 0 THEN {TileGridNew(GridN)}
    ELSE LET P == PaintedGrids(k - 1)
         IN  P \cup {SetTile(g, x, y, t) : g \in P, x \in Coords, y \in Coords, t \in TileType}

InitGrid ==
    /\ size = GridN
    /\ rooms = <<>>
    /\ corridors = <<>>
    /\ pc = "grid"
    /\ calls = 0
    /\ todo = 0
    /\ cand = NoCand
    /\ idx = 0
    /\ nearest = 0
    /\ grid \in PaintedGrids(MaxPainted)
    /\ pre = NoGrid
    /\ op = NoOp

SetTileOp ==
    /\ op = NoOp
    /\ \E x \in Coords, y \in Coords, t \in TileType :
          /\ grid' = SetTile(grid, x, y, t)
          /\ op' = [kind |-> "set_tile", x |-> x, y |-> y, tile |-> t]
    /\ pre' = grid
    /\ UNCHANGED worldVars

SetEmptyTileOp ==
    /\ op = NoOp
    /\ \E x \in Coords, y \in Coords, t \in TileType :
          /\ grid' = SetEmptyTile(grid, x, y, t)
          /\ op' = [kind |-> "set_empty_tile", x |-> x, y |-> y, tile |-> t]
    /\ pre' = grid
    /\ UNCHANGED worldVars

RoomTileOp ==
    /\ op = NoOp
    /\ \E sx \in Coords, sy \in Coords, w \in 1..(GridN - 1), h \in 1..(GridN - 1) :
          \E res \in {RoomTile(RoomNew(<<sx, sy>>, w, h), grid)} :
              /\ res.ok
              /\ grid' = res.grid
              /\ op' = [kind |-> "room", room |-> RoomNew(<<sx, sy>>, w, h)]
    /\ pre' = grid
    /\ UNCHANGED worldVars

CorridorTileOp ==
    /\ op = NoOp
    /\ \E sx \in Coords, sy \in Coords, n \in 0..GridN, d \in CorridorType :
          \E res \in {CorridorTile(CorridorNew(<<sx, sy>>, n, d), grid)} :
              /\ res.ok
              /\ grid' = res.grid
              /\ op' = [kind |-> "corridor", corridor |-> CorridorNew(<<sx, sy>>, n, d)]
    /\ pre' = grid
    /\ UNCHANGED worldVars

NextGrid ==
    \/ SetTileOp
    \/ SetEmptyTileOp
    \/ RoomTileOp
    \/ CorridorTileOp

SpecGrid == InitGrid /\ [][NextGrid]_vars

---------------------------------------------------------------------------
(* Properties of World, checked under Spec (C9 under SpecLattice) *)

Abs(v) == IF v < 0 THEN -v ELSE v

\* whether tile t lies at (x, y) of grid g
Holds(g, x, y, t) == InGrid(g, x, y) /\ g[y][x] = t

\* [a.start, a.start + dims + 2) and [b.start, b.start + dims + 2) meet
PaddedBoxesIntersect(a, b) ==
    /\ a.start[1] < b.start[1] + b.width + 2
    /\ b.start[1] < a.start[1] + a.width + 2
    /\ a.start[2] < b.start[2] + b.height + 2
    /\ b.start[2] < a.start[2] + a.height + 2

\* C1: at every moment, after any number of generate() calls, the padded
\* boxes (padding 2) of every two distinct rooms of World.rooms are disjoint.
C1_PaddedBoxesDisjoint ==
    \A a \in 1..Len(rooms), b \in 1..Len(rooms) :
        a # b => ~PaddedBoxesIntersect(rooms[a], rooms[b])

\* a second generate() call has pushed a fourth room next to the three rooms
\* (and three corridors) of the first call
C1_Witness == calls = 2 /\ Len(rooms) = 4 /\ Len(corridors) = 3

\* C2: room placement always comes to an end: while random_room() is in its
\* loop, the loop can still be left (there is no failure exit in the code, so
\* leaving it means drawing a start point that overlaps no room).
C2_PlacementCanEnd ==
    pc = "sampling" =>
        \E sx \in 0..(size - cand.width - 1), sy \in 0..(size - cand.height - 1) :
            ~Overlaps(rooms, <<sx, sy>>, cand.width, cand.height, Padding)

\* C3: in the grid to_tilegrid() returns, every cell on the path of every
\* corridor of the World holds Floor.
C3_CorridorsRasterized ==
    (pc = "idle" /\ grid # NoGrid) =>
        \A j \in 1..Len(corridors) :
            \A d \in 0..(corridors[j].length - 1) :
                IF corridors[j].direction = "Horizontal"
                THEN Holds(grid, corridors[j].start[1] + d, corridors[j].start[2], "Floor")
                ELSE Holds(grid, corridors[j].start[1], corridors[j].start[2] + d, "Floor")

RoomInsideGrid(r) ==
    /\ 0 <= r.start[1]
    /\ r.start[1] + r.width <= size - 1
    /\ 0 <= r.start[2]
    /\ r.start[2] + r.height <= size - 1

\* C4: every room generate() has pushed has its wall ring inside the grid,
\* and to_tilegrid() never indexes outside the grid.
C4_RoomsInsideGrid ==
    /\ \A k \in 1..Len(rooms) : RoomInsideGrid(rooms[k])
    /\ pc # "panic_index"

\* to_tilegrid() has rasterized a room whose far corner is the grid's
C4_Witness ==
    /\ pc = "idle"
    /\ grid # NoGrid
    /\ \E k \in 1..Len(rooms) :
          /\ rooms[k].start[1] + rooms[k].width = size - 1
          /\ rooms[k].start[2] + rooms[k].height = size - 1
    /\ grid[size - 1][size - 1] = "Wall"

\* C7: the room the corridor loop has chosen for the room it processed last
\* is another room, and no other room's center is strictly closer.
C7_NearestOtherRoom ==
    idx >= 1 =>
        /\ nearest \in 1..Len(rooms)
        /\ nearest # idx
        /\ \A k \in 1..Len(rooms) :
              k # idx =>
                  DistanceSq(rooms[idx].center, rooms[k].center)
                      >= DistanceSq(rooms[idx].center, rooms[nearest].center)

\* the first room's nearest room is the third, the second being farther
C7_Witness ==
    /\ idx = 1
    /\ nearest = 3
    /\ DistanceSq(rooms[1].center, rooms[2].center)
           > DistanceSq(rooms[1].center, rooms[3].center)

\* C8: the corridor pushed last starts at the center of the room processed
\* last and is as long as the horizontal distance between that center and
\* the nearest room's center.
C8_CorridorLength ==
    idx >= 1 =>
        /\ corridors[Len(corridors)].start = rooms[idx].center
        /\ corridors[Len(corridors)].length
               = Abs(rooms[nearest].center[1] - rooms[idx].center[1])

\* C9: whenever a generate() call has returned, there are as many corridors
\* as rooms and every room's center is the start of exactly one corridor.
C9_OneCorridorPerRoom ==
    (pc = "idle" /\ calls >= 1) =>
        /\ Len(corridors) = Len(rooms)
        /\ \A k \in 1..Len(rooms) :
              Cardinality({j \in 1..Len(corridors) :
                              corridors[j].start = rooms[k].center}) = 1

---------------------------------------------------------------------------
(* Properties of the grid operations, checked under SpecGrid *)

InRect(r, x, y) ==
    /\ r.start[1] <= x
    /\ x <= r.start[1] + r.width
    /\ r.start[2] <= y
    /\ y <= r.start[2] + r.height

InInterior(r, x, y) ==
    /\ r.start[1] < x
    /\ x < r.start[1] + r.width
    /\ r.start[2] < y
    /\ y < r.start[2] + r.height

RectEmpty(g, r) ==
    \A x \in Coords, y \in Coords : InRect(r, x, y) => g[y][x] = "Empty"

\* C5: a room rasterized onto a grid whose cells in its rectangle are Empty
\* leaves Floor on the (w-1) x (h-1) cells of the strict interior, Wall on
\* the rest of the rectangle (the perimeter, corners included) and every
\* cell outside the rectangle as it was.
C5_RoomRasterized ==
    (op.kind = "room" /\ RectEmpty(pre, op.room)) =>
        /\ \A x \in Coords, y \in Coords :
              grid[y][x] = IF InInterior(op.room, x, y) THEN "Floor"
                           ELSE IF InRect(op.room, x, y) THEN "Wall"
                           ELSE pre[y][x]
        /\ Cardinality({c \in Coords \X Coords :
                           InRect(op.room, c[1], c[2]) /\ grid[c[2]][c[1]] = "Floor"})
               = (op.room.width - 1) * (op.room.height - 1)

\* a 3 by 2 room rasterized beside a cell that was already painted
C5_Witness ==
    /\ op.kind = "room"
    /\ op.room.width = 3
    /\ op.room.height = 2
    /\ RectEmpty(pre, op.room)
    /\ \E x \in Coords, y \in Coords : ~InRect(op.room, x, y) /\ pre[y][x] # "Empty"

OtherCellsKept(x, y) ==
    \A x2 \in Coords, y2 \in Coords : <<x2, y2>> # <<x, y>> => grid[y2][x2] = pre[y2][x2]

\* C6: set_empty_tile changes the cell to the tile only when the cell held
\* Empty and keeps it otherwise; set_tile leaves the tile in the cell; both
\* leave every other cell as it was.
C6_Writes ==
    /\ op.kind = "set_empty_tile" =>
          /\ pre[op.y][op.x] = "Empty" => grid[op.y][op.x] = op.tile
          /\ pre[op.y][op.x] # "Empty" => grid[op.y][op.x] = pre[op.y][op.x]
          /\ OtherCellsKept(op.x, op.y)
    /\ op.kind = "set_tile" =>
          /\ grid[op.y][op.x] = op.tile
          /\ OtherCellsKept(op.x, op.y)

\* Wall painted with set_empty_tile at a cell holding Floor: it stays Floor
C6_Witness ==
    /\ op.kind = "set_empty_tile"
    /\ op.tile = "Wall"
    /\ pre[op.y][op.x] = "Floor"
    /\ grid[op.y][op.x] = "Floor"

\* C10: a corridor rasterized onto an all-Empty grid has Floor on each cell
\* of its path and Wall on both sides of each: above and below for a
\* Horizontal corridor, left and right for a Vertical one.
C10_CorridorWalls ==
    (op.kind = "corridor" /\ pre = TileGridNew(GridN)) =>
        \A d \in 0..(op.corridor.length - 1) :
            LET sx == op.corridor.start[1]
                sy == op.corridor.start[2]
            IN  IF op.corridor.direction = "Horizontal"
                THEN /\ Holds(grid, sx + d, sy, "Floor")
                     /\ Holds(grid, sx + d, sy - 1, "Wall")
                     /\ Holds(grid, sx + d, sy + 1, "Wall")
                ELSE /\ Holds(grid, sx, sy + d, "Floor")
                     /\ Holds(grid, sx - 1, sy + d, "Wall")
                     /\ Holds(grid, sx + 1, sy + d, "Wall")

=============================================================================
